---------------------------- MODULE Spec2Model ----------------------------
(***************************************************************************)
(* The lead aggregation pipelines of the Nonslip repository:               *)
(*   HistoricalDataCollector.run     (historical_data_collector.py)        *)
(*   ProductionLeadMonitor.run_full_scan (production_monitor.py)           *)
(*   LeadMonitor.run                 (lead_monitor.py)                     *)
(* Strings are TLA+ strings, a lead is a Python dict (a function from its  *)
(* keys to strings), lead objects live in `heap` and lists hold references *)
(* (indices into heap), so that in-place stamping and `lead in filtered`   *)
(* behave as in Python.  Network calls are the environment: each fetch     *)
(* raises, answers with a non-200 status, or answers 200 with a feed.      *)
(***************************************************************************)
EXTENDS Integers, Sequences, FiniteSets, TLC

(***************************************************************************)
(* Bounds of the model.                                                    *)
(***************************************************************************)
\* months searched by collect_news_historical (the code runs range(1, 11))
NumMonths == 2
\* passes of the loop of search_google_news (the code has six queries)
NumQueries == 2
\* items the feeds, pages and permit searches of one run carry in total
MaxLeads == 2
\* leads in a list passed to a report function called on its own
MaxCallLeads == 3
\* leads in a list passed to filter_by_target_counties called on its own
MaxFilterLeads == 4
\* leads in a list passed to filter_by_target_industries called on its own
MaxIndustryLeads == 2

(***************************************************************************)
(* Configuration of the three scripts.                                     *)
(***************************************************************************)
TARGET_COUNTIES == <<"Middlesex", "Norfolk", "Worcester">>

TARGET_INDUSTRIES ==
    << "restaurant", "food service", "dining", "cafe", "bar",
       "healthcare", "hospital", "medical center", "clinic", "health",
       "school", "university", "college", "education", "academy",
       "hotel", "motel", "resort", "lodging", "inn",
       "country club", "golf club", "club",
       "assisted living", "nursing home", "senior living", "retirement", "55+",
       "fitness center", "gym", "health club", "wellness" >>

target_keywords ==
    << "restaurant", "dining", "food service",
       "hospital", "healthcare", "medical center", "clinic",
       "school", "university", "college", "education",
       "hotel", "motel", "resort", "lodging",
       "country club", "golf club",
       "assisted living", "nursing home", "senior living", "retirement",
       "fitness center", "gym", "health club", "wellness center" >>

LM_TARGET_INDUSTRIES ==
    << "restaurant", "food service", "healthcare", "hospital", "school",
       "university", "college", "hotel", "country club", "assisted living",
       "nursing home", "senior living", "55+", "fitness center", "gym" >>

\* the dict literal of filter_by_target_counties, in insertion order
cities ==
    << [county |-> "Middlesex",
        city_list |-> << "cambridge", "lowell", "newton", "somerville",
                         "framingham", "waltham", "malden", "medford" >>],
       [county |-> "Norfolk",
        city_list |-> << "quincy", "brookline", "weymouth", "needham",
                         "milton", "braintree" >>],
       [county |-> "Worcester",
        city_list |-> << "worcester", "leominster", "fitchburg",
                         "shrewsbury", "marlborough" >>] >>

\* the dict literal of LeadMonitor.search_ma_permits, flattened in the order
\* of its two nested loops
LM_cities ==
    << <<"Middlesex", "Cambridge">>, <<"Middlesex", "Lowell">>,
       <<"Middlesex", "Newton">>, <<"Middlesex", "Somerville">>,
       <<"Middlesex", "Framingham">>, <<"Middlesex", "Waltham">>,
       <<"Middlesex", "Malden">>, <<"Middlesex", "Medford">>,
       <<"Norfolk", "Quincy">>, <<"Norfolk", "Brookline">>,
       <<"Norfolk", "Weymouth">>, <<"Norfolk", "Braintree">>,
       <<"Norfolk", "Needham">>, <<"Norfolk", "Milton">>,
       <<"Worcester", "Worcester">>, <<"Worcester", "Leominster">>,
       <<"Worcester", "Fitchburg">>, <<"Worcester", "Shrewsbury">>,
       <<"Worcester", "Marlborough">> >>

\* the queries of collect_news_historical
queries ==
    << "new restaurant opening Massachusetts",
       "restaurant renovation Massachusetts",
       "new hotel Massachusetts",
       "hotel renovation Massachusetts",
       "hospital expansion Massachusetts",
       "healthcare facility Massachusetts",
       "new gym Massachusetts",
       "fitness center opening Massachusetts",
       "nursing home Massachusetts",
       "assisted living Massachusetts",
       "school renovation Massachusetts" >>

\* the query the model runs each month
ModelQueries == << queries[3] >>

\* the f-strings of ProductionLeadMonitor.search_google_news, location
\* "Massachusetts"
search_queries ==
    << "new restaurant opening Massachusetts",
       "restaurant renovation Massachusetts",
       "new hotel opening Massachusetts",
       "school renovation Massachusetts",
       "nursing home opened Massachusetts",
       "fitness center opening Massachusetts" >>

\* the queries the model's search_google_news runs: the first NumQueries
ModelSearchQueries == SubSeq(search_queries, 1, NumQueries)

\* items[:5] of search_google_news and incident_divs[:20] of search_osha_data
TopItems == 5
TopDivs == 20

\* datetime.now().strftime('%Y-%m-%d') of the day of the run
Today == "2025-11-01"

(***************************************************************************)
(* Strings.                                                                *)
(***************************************************************************)
UpperChars == "ABCDEFGHIJKLMNOPQRSTUVWXYZ"
LowerChars == "abcdefghijklmnopqrstuvwxyz"

CharAt(s, i) == SubSeq(s, i, i)

\* the case mappings of the ASCII letters
ToLower == [c \in {CharAt(UpperChars, i) : i \in 1..26} |->
              CharAt(LowerChars, CHOOSE i \in 1..26 : CharAt(UpperChars, i) = c)]
ToUpper == [c \in {CharAt(LowerChars, i) : i \in 1..26} |->
              CharAt(UpperChars, CHOOSE i \in 1..26 : CharAt(LowerChars, i) = c)]

IsUpper(c) == c \in DOMAIN ToLower
IsLower(c) == c \in DOMAIN ToUpper

LowerChar(c) == IF IsUpper(c) THEN ToLower[c] ELSE c

UpperChar(c) == IF IsLower(c) THEN ToUpper[c] ELSE c

RECURSIVE Lower(_)
\* str.lower()
Lower(s) == IF s = "" THEN "" ELSE LowerChar(Head(s)) \o Lower(Tail(s))

RECURSIVE TitleFrom(_, _)
TitleFrom(s, prevCased) ==
    IF s = "" THEN ""
    ELSE LET c == Head(s)
             cased == IsUpper(c) \/ IsLower(c)
         IN  (IF prevCased THEN LowerChar(c) ELSE UpperChar(c))
                 \o TitleFrom(Tail(s), cased)

\* str.title()
Title(s) == TitleFrom(s, FALSE)

\* the Python test `k in t` on strings
Contains(t, k) ==
    \E i \in 0..(Len(t) - Len(k)) : SubSeq(t, i + 1, i + Len(k)) = k

RECURSIVE Join(_)
\* " ".join(parts)
Join(parts) ==
    IF Len(parts) = 0 THEN ""
    ELSE IF Len(parts) = 1 THEN parts[1]
    ELSE parts[1] \o " " \o Join(Tail(parts))

Digit(d) == CharAt("0123456789", d + 1)

\* f"{year}-{month:02d}"
MonthTag(year, month) ==
    Digit(year \div 1000) \o Digit((year \div 100) % 10)
        \o Digit((year \div 10) % 10) \o Digit(year % 10)
        \o "-" \o Digit(month \div 10) \o Digit(month % 10)

(***************************************************************************)
(* Dicts and lists of references.                                          *)
(***************************************************************************)
\* d.get(k, default)
Get(d, k, default) == IF k \in DOMAIN d THEN d[k] ELSE default

\* d[k] = v
Put(d, k, v) == [x \in DOMAIN d \cup {k} |-> IF x = k THEN v ELSE d[x]]

Range(s) == {s[i] : i \in 1..Len(s)}

\* s[:n]
Take(s, n) == SubSeq(s, 1, IF Len(s) < n THEN Len(s) ELSE n)

\* the membership test by identity alone (`is`), in the place of Python's
\* identity or equality
InList_identity(h, id, refs) == \E j \in 1..Len(refs) : refs[j] = id

\* `lead not in filtered` negated: list membership is identity or equality
InList(h, id, refs) == \E j \in 1..Len(refs) : refs[j] = id \/ h[refs[j]] = h[id]


(***************************************************************************)
(* The filters.  A filter takes the heap and a list of references and      *)
(* gives the heap after its stamps and the list it returns.                *)
(***************************************************************************)
RECURSIVE LowerEach(_)
\* keyword.lower() of every keyword of a list
LowerEach(kws) ==
    IF kws = <<>> THEN <<>> ELSE <<Lower(Head(kws))>> \o LowerEach(Tail(kws))

\* the configured lists as the filters compare them: keyword.lower(),
\* county.lower()
TARGET_INDUSTRIES_lower == LowerEach(TARGET_INDUSTRIES)
target_keywords_lower == LowerEach(target_keywords)
LM_TARGET_INDUSTRIES_lower == LowerEach(LM_TARGET_INDUSTRIES)
TARGET_COUNTIES_lower == LowerEach(TARGET_COUNTIES)

RECURSIVE ScanKeywords(_, _, _)
\* the loop `for keyword in kws: if keyword.lower() in text: ... break`,
\* given the lowered keywords: the index of the keyword it stops at, 0 when
\* it runs to the end
ScanKeywords(lowered, text, i) ==
    IF i > Len(lowered) THEN 0
    ELSE IF Contains(text, lowered[i]) THEN i
    ELSE ScanKeywords(lowered, text, i + 1)

RECURSIVE ScanKeywordsBack(_, _, _)
ScanKeywordsBack(lowered, text, i) ==
    IF i = 0 THEN 0
    ELSE IF Contains(text, lowered[i]) THEN i
    ELSE ScanKeywordsBack(lowered, text, i - 1)

\* the loop without its break: the last keyword that occurs is the stamp
MatchKeyword_last(lowered, text) == ScanKeywordsBack(lowered, text, Len(lowered))

MatchKeyword(lowered, text) == ScanKeywords(lowered, text, 1)

RECURSIVE ScanCities(_, _, _)
\* the loop `for city in city_list: if city in text: ... break`
ScanCities(city_list, text, i) ==
    IF i > Len(city_list) THEN 0
    ELSE IF Contains(text, city_list[i]) THEN i
    ELSE ScanCities(city_list, text, i + 1)

\* the text made of title and description alone
H_industry_text_no_query(lead) ==
    Lower(Join(<< Get(lead, "title", ""), Get(lead, "description", "") >>))

\* the text HistoricalDataCollector.filter_by_target_industries matches on
H_industry_text(lead) ==
    Lower(Join(<< Get(lead, "title", ""), Get(lead, "description", ""),
                  Get(lead, "search_query", "") >>))

\* the text without its .lower()
P_industry_text_no_lower(lead) ==
    Join(<< Get(lead, "title", ""), Get(lead, "description", ""),
            Get(lead, "company", ""), Get(lead, "category", "") >>)

\* the text ProductionLeadMonitor.filter_by_target_industries matches on
P_industry_text(lead) ==
    Lower(Join(<< Get(lead, "title", ""), Get(lead, "description", ""),
                  Get(lead, "company", ""), Get(lead, "category", "") >>))

\* the text LeadMonitor.filter_by_industry matches on
LM_industry_text(item) ==
    Lower(Get(item, "name", "") \o " " \o Get(item, "description", "")
              \o " " \o Get(item, "industry", ""))

\* the text filter_by_target_counties matches on
county_text(lead) ==
    Lower(Join(<< Get(lead, "title", ""), Get(lead, "description", "") >>))

\* the loop with `return filtered` in the place of its break: it ends at
\* the first lead that matches
RECURSIVE H_industry_loop_return(_, _, _, _)
H_industry_loop_return(h, leads, i, filtered) ==
    IF i > Len(leads) THEN [heap |-> h, out |-> filtered]
    ELSE LET id == leads[i]
             k == MatchKeyword(TARGET_INDUSTRIES_lower, H_industry_text(h[id]))
         IN  IF k = 0 THEN H_industry_loop_return(h, leads, i + 1, filtered)
             ELSE [heap |-> [h EXCEPT ![id] =
                                Put(@, "matched_keyword", TARGET_INDUSTRIES[k])],
                   out  |-> Append(filtered, id)]

\* the loop with filtered.append(lead) placed behind the keyword loop: every
\* lead is appended, a lead with a keyword stamped
RECURSIVE H_industry_loop_append_all(_, _, _, _)
H_industry_loop_append_all(h, leads, i, filtered) ==
    IF i > Len(leads) THEN [heap |-> h, out |-> filtered]
    ELSE LET id == leads[i]
             k == MatchKeyword(TARGET_INDUSTRIES_lower, H_industry_text(h[id]))
         IN  H_industry_loop_append_all(
                 IF k = 0 THEN h
                 ELSE [h EXCEPT ![id] = Put(@, "matched_keyword", TARGET_INDUSTRIES[k])],
                 leads, i + 1, Append(filtered, id))

RECURSIVE H_industry_loop(_, _, _, _)
H_industry_loop(h, leads, i, filtered) ==
    IF i > Len(leads) THEN [heap |-> h, out |-> filtered]
    ELSE LET id == leads[i]
             k == MatchKeyword(TARGET_INDUSTRIES_lower, H_industry_text(h[id]))
         IN  IF k = 0 THEN H_industry_loop(h, leads, i + 1, filtered)
             ELSE H_industry_loop(
                      [h EXCEPT ![id] = Put(@, "matched_keyword", TARGET_INDUSTRIES[k])],
                      leads, i + 1, Append(filtered, id))

\* HistoricalDataCollector.filter_by_target_industries
H_filter_by_target_industries(h, leads) == H_industry_loop(h, leads, 1, <<>>)

RECURSIVE P_industry_loop(_, _, _, _, _, _)
P_industry_loop(h, leads, keywords, lowered, i, filtered) ==
    IF i > Len(leads) THEN [heap |-> h, out |-> filtered]
    ELSE LET id == leads[i]
             k == MatchKeyword(lowered, P_industry_text(h[id]))
         IN  IF k = 0
             THEN P_industry_loop(h, leads, keywords, lowered, i + 1, filtered)
             ELSE P_industry_loop(
                      [h EXCEPT ![id] = Put(@, "matched_keyword", keywords[k])],
                      leads, keywords, lowered, i + 1, Append(filtered, id))

\* ProductionLeadMonitor.filter_by_target_industries
P_filter_by_target_industries(h, leads, keywords) ==
    P_industry_loop(h, leads, keywords,
                    IF keywords = target_keywords THEN target_keywords_lower
                    ELSE LowerEach(keywords),
                    1, <<>>)

RECURSIVE LM_industry_loop(_, _, _, _)
LM_industry_loop(h, data, i, filtered) ==
    IF i > Len(data) THEN [heap |-> h, out |-> filtered]
    ELSE LET id == data[i]
             k == MatchKeyword(LM_TARGET_INDUSTRIES_lower, LM_industry_text(h[id]))
         IN  IF k = 0 THEN LM_industry_loop(h, data, i + 1, filtered)
             ELSE LM_industry_loop(h, data, i + 1, Append(filtered, id))

\* LeadMonitor.filter_by_industry
filter_by_industry(h, data) == LM_industry_loop(h, data, 1, <<>>)

\* the county branch comparing `county in text`, without county.lower()
county_branch_no_lower(h, id, text, filtered) ==
    LET c == MatchKeyword(TARGET_COUNTIES, text)
    IN  IF c = 0 THEN [heap |-> h, out |-> filtered]
        ELSE [heap |-> [h EXCEPT ![id] = Put(@, "county", TARGET_COUNTIES[c])],
              out  |-> Append(filtered, id)]

\* the county branch of filter_by_target_counties for one lead
county_branch(h, id, text, filtered) ==
    LET c == MatchKeyword(TARGET_COUNTIES_lower, text)
    IN  IF c = 0 THEN [heap |-> h, out |-> filtered]
        ELSE [heap |-> [h EXCEPT ![id] = Put(@, "county", TARGET_COUNTIES[c])],
              out  |-> Append(filtered, id)]

\* the body without its `if lead not in filtered` guard
city_stamp_no_guard(h, id, county, city, filtered) ==
    [heap |-> [h EXCEPT ![id] = Put(Put(@, "county", county), "city", Title(city))],
     out  |-> Append(filtered, id)]

\* the body stamping the county with lead.setdefault('county', county)
city_stamp_setdefault(h, id, county, city, filtered) ==
    LET h2 == [h EXCEPT ![id] =
                   Put(Put(@, "county", Get(@, "county", county)), "city", Title(city))]
    IN  [heap |-> h2,
         out  |-> IF ~InList(h2, id, filtered) THEN Append(filtered, id)
                  ELSE filtered]

\* the body of `if city in text:` for one lead
city_stamp(h, id, county, city, filtered) ==
    LET h2 == [h EXCEPT ![id] = Put(Put(@, "county", county), "city", Title(city))]
    IN  [heap |-> h2,
         out  |-> IF ~InList(h2, id, filtered) THEN Append(filtered, id)
                  ELSE filtered]

RECURSIVE city_branch(_, _, _, _, _)
\* the loop `for county, city_list in cities.items()` for one lead
city_branch(h, id, text, filtered, ci) ==
    IF ci > Len(cities) THEN [heap |-> h, out |-> filtered]
    ELSE LET m == ScanCities(cities[ci].city_list, text, 1)
         IN  IF m = 0 THEN city_branch(h, id, text, filtered, ci + 1)
             ELSE LET r == city_stamp(h, id, cities[ci].county,
                                      cities[ci].city_list[m], filtered)
                  IN  city_branch(r.heap, id, text, r.out, ci + 1)

RECURSIVE county_loop(_, _, _, _)
county_loop(h, leads, i, filtered) ==
    IF i > Len(leads) THEN [heap |-> h, out |-> filtered]
    ELSE LET id == leads[i]
             text == county_text(h[id])
             a == county_branch(h, id, text, filtered)
             b == city_branch(a.heap, id, text, a.out, 1)
         IN  county_loop(b.heap, leads, i + 1, b.out)

\* HistoricalDataCollector.filter_by_target_counties
filter_by_target_counties(h, leads) == county_loop(h, leads, 1, <<>>)

(***************************************************************************)
(* What the network can answer.                                            *)
(***************************************************************************)
\* <item> elements of a Google News RSS feed; an element a feed item lacks
\* is a key the record lacks
Articles ==
    { [title |-> "New Restaurant Opens in Cambridge",
       link |-> "https://news.example/a1", pubDate |-> "Sat, 01 Mar 2025"],
      [title |-> "Hotel Bar Reopens", description |-> "Quincy and Cambridge venues",
       link |-> "https://news.example/a2", pubDate |-> "Mon, 03 Mar 2025"],
      [title |-> "Middlesex Country Club Gala", description |-> "",
       link |-> "https://news.example/a3", pubDate |-> "Tue, 04 Mar 2025"],
      [title |-> "Barbershop opens in Springfield", description |-> "",
       link |-> "https://news.example/a4"],
      [title |-> "Worcester School Renovation", description |-> "",
       link |-> "https://news.example/a5", pubDate |-> "Fri, 07 Mar 2025"] }

\* <div class="severeinjury-item"> elements of the OSHA page; bad: reading
\* the element raises
OshaDivs ==
    { [strong |-> "Mercy Hospital", text |-> "Mercy Hospital Worcester MA wet floor fall",
       bad |-> FALSE],
      [text |-> "Acme Gym Nashua NH ladder fall", bad |-> FALSE],
      [text |-> "", bad |-> TRUE] }

\* what a city's permit search can give (LeadMonitor._search_city_permits is
\* a template that returns [] as written; its caller handles any list and
\* any exception)
PermitRecords ==
    { [name |-> "Harbor Restaurant", address |-> "1 Main St", city |-> "Quincy",
       county |-> "Norfolk", project_type |-> "Renovation"],
      [name |-> "Joe's Garage", description |-> "auto repair"] }

\* what LeadMonitor._query_osha_data can give
IncidentRecords ==
    { [name |-> "Elm Nursing Home", description |-> "slip on wet floor",
       city |-> "Lowell"],
      [name |-> "Acme Tools", description |-> "ladder fall"] }

SeqsUpTo(S, n) == UNION { [1..k -> S] : k \in 0..n }

Outcomes == {"raise", "http", "ok"}

(***************************************************************************)
(* The collectors.  A collector call gives the leads it returns, whether   *)
(* it printed an error, and whether an exception left it.                  *)
(***************************************************************************)
\* item.find(tag).text if item.find(tag) else ""
ItemText(item, tag) == IF tag \in DOMAIN item THEN item[tag] ELSE ""

\* the lead dict of search_google_news_by_month
H_news_lead(item, query, year, month) ==
    [date_found |-> Today,
     source |-> "Google News",
     title |-> ItemText(item, "title"),
     description |-> ItemText(item, "description"),
     url |-> ItemText(item, "link"),
     published_date |-> ItemText(item, "pubDate"),
     search_query |-> query,
     search_month |-> MonthTag(year, month),
     type |-> "News Mention"]

\* the function without its try/except: the exception leaves the call
search_google_news_by_month_no_try(query, year, month, outcome, items) ==
    CASE outcome = "raise" -> [leads |-> <<>>, warned |-> FALSE, raised |-> TRUE]
      [] outcome = "http"  -> [leads |-> <<>>, warned |-> FALSE, raised |-> FALSE]
      [] outcome = "ok"    ->
             [leads |-> [i \in 1..Len(items) |->
                            H_news_lead(items[i], query, year, month)],
              warned |-> FALSE, raised |-> FALSE]

\* HistoricalDataCollector.search_google_news_by_month
search_google_news_by_month(query, year, month, outcome, items) ==
    CASE outcome = "raise" -> [leads |-> <<>>, warned |-> TRUE, raised |-> FALSE]
      [] outcome = "http"  -> [leads |-> <<>>, warned |-> FALSE, raised |-> FALSE]
      [] outcome = "ok"    ->
             [leads |-> [i \in 1..Len(items) |->
                            H_news_lead(items[i], query, year, month)],
              warned |-> FALSE, raised |-> FALSE]

\* HistoricalDataCollector.search_osha_historical
search_osha_historical(outcome) ==
    CASE outcome = "raise" -> [leads |-> <<>>, warned |-> TRUE, raised |-> FALSE]
      [] outcome = "http"  -> [leads |-> <<>>, warned |-> FALSE, raised |-> FALSE]
      [] outcome = "ok"    ->
             [leads |-> << [source |-> "OSHA",
                            note |-> "Historical OSHA data requires accessing their bulk downloads",
                            recommendation |-> "Focus on recent incidents (last 90 days) for highest value"] >>,
              warned |-> FALSE, raised |-> FALSE]

\* the lead dict of ProductionLeadMonitor.search_google_news
P_news_lead(item, query) ==
    [source |-> "Google News",
     title |-> ItemText(item, "title"),
     description |-> ItemText(item, "description"),
     url |-> ItemText(item, "link"),
     date |-> ItemText(item, "pubDate"),
     search_query |-> query,
     type |-> "News Mention"]

\* one pass of the loop `for query in search_queries` of search_google_news;
\* exit: the exception left the loop for the function's except clause
search_google_news_query(query, outcome, items) ==
    CASE outcome = "raise" ->
             [leads |-> <<>>, warned |-> TRUE, raised |-> FALSE, exit |-> TRUE]
      [] outcome = "http"  ->
             [leads |-> <<>>, warned |-> FALSE, raised |-> FALSE, exit |-> FALSE]
      [] outcome = "ok"    ->
             [leads |-> [i \in 1..Len(Take(items, TopItems)) |->
                            P_news_lead(items[i], query)],
              warned |-> FALSE, raised |-> FALSE, exit |-> FALSE]

\* the incident dict of search_osha_data
P_incident(div, state) ==
    [source |-> "OSHA",
     company |-> ItemText(div, "strong"),
     description |-> div.text,
     type |-> "Safety Incident",
     priority |-> "High",
     state |-> state]

RECURSIVE P_osha_loop(_, _, _, _)
\* the loop `for div in incident_divs[:20]`
P_osha_loop(divs, state, i, incidents) ==
    IF i > Len(divs) THEN incidents
    ELSE IF divs[i].bad THEN P_osha_loop(divs, state, i + 1, incidents)
    ELSE IF Contains(divs[i].text, "MA") \/ Contains(divs[i].text, "Massachusetts")
         THEN P_osha_loop(divs, state, i + 1,
                          Append(incidents, P_incident(divs[i], state)))
         ELSE P_osha_loop(divs, state, i + 1, incidents)

\* divs whose parsing raised inside the inner try of search_osha_data
BadDivs(divs) == Cardinality({i \in 1..Len(divs) : divs[i].bad})

\* ProductionLeadMonitor.search_osha_data; dropped: the divs whose parsing
\* raised, reported: how many of them an error was printed for
search_osha_data(state, outcome, divs) ==
    CASE outcome = "raise" ->
             [leads |-> <<>>, warned |-> TRUE, raised |-> FALSE,
              dropped |-> 0, reported |-> 0]
      [] outcome = "http"  ->
             [leads |-> <<>>, warned |-> FALSE, raised |-> FALSE,
              dropped |-> 0, reported |-> 0]
      [] outcome = "ok"    ->
             [leads |-> P_osha_loop(Take(divs, TopDivs), state, 1, <<>>),
              warned |-> FALSE, raised |-> FALSE,
              dropped |-> BadDivs(Take(divs, TopDivs)), reported |-> 0]

\* one pass of the inner loop of LeadMonitor.search_ma_permits: the try
\* around _search_city_permits(city, county)
search_city(city, county, outcome, permit_data) ==
    CASE outcome = "raise" -> [leads |-> <<>>, warned |-> TRUE, raised |-> FALSE]
      [] outcome = "ok"    -> [leads |-> permit_data, warned |-> FALSE, raised |-> FALSE]

\* LeadMonitor.search_osha_incidents
search_osha_incidents(outcome, incidents) ==
    CASE outcome = "raise" -> [leads |-> <<>>, warned |-> TRUE, raised |-> FALSE]
      [] outcome = "ok"    -> [leads |-> incidents, warned |-> FALSE, raised |-> FALSE]

(***************************************************************************)
(* The reports.  A rendered report is its summary counts, the notes shown  *)
(* for an empty section, and its detail listing: one record per rendered   *)
(* entry, naming the lead and the text shown for each field of the entry.  *)
(***************************************************************************)
\* lead.get(key) is truthy
Truthy(lead, key) == key \in DOMAIN lead /\ lead[key] # ""

\* [l for l in leads if l.get('source') == source]
BySource(h, leads, source) ==
    SelectSeq(leads, LAMBDA id : Get(h[id], "source", "") = source)

\* the OSHA entry of format_leads_for_email
P_osha_entry(lead) ==
    [title       |-> Get(lead, "company", "Unknown Business"),
     description |-> Get(lead, "description", "N/A")]

\* the news entry of format_leads_for_email
P_news_entry(lead) ==
    [title           |-> Get(lead, "title", "N/A"),
     description     |-> Get(lead, "description", "N/A"),
     date            |-> Get(lead, "date", "N/A"),
     matched_keyword |-> Get(lead, "matched_keyword", "N/A"),
     url             |-> Get(lead, "url", "#")]

\* format_leads_for_email
format_leads_for_email(h, leads) ==
    LET osha_leads == BySource(h, leads, "OSHA")
        news_leads == BySource(h, leads, "Google News")
    IN  [total    |-> Len(leads),
         high     |-> Len(osha_leads),
         mentions |-> Len(news_leads),
         notes    |-> (IF osha_leads = <<>> THEN {"No OSHA incidents found today."}
                       ELSE {})
                      \cup (IF news_leads = <<>>
                            THEN {"No news mentions found today."} ELSE {}),
         listing  |->
             [i \in 1..Len(osha_leads) |->
                 [kind |-> "OSHA INCIDENT", ref |-> osha_leads[i],
                  shown |-> P_osha_entry(h[osha_leads[i]])]]
             \o [i \in 1..Len(news_leads) |->
                 [kind |-> "NEWS", ref |-> news_leads[i],
                  shown |-> P_news_entry(h[news_leads[i]])]]]

\* LeadMonitor._format_permit_html: the Phone and Website lines are written
\* only for a truthy value
format_permit_html(permit) ==
    LET always == [name         |-> Get(permit, "name", "N/A"),
                   address      |-> Get(permit, "address", "N/A"),
                   city         |-> Get(permit, "city", "N/A"),
                   county       |-> Get(permit, "county", "N/A"),
                   project_type |-> Get(permit, "project_type", "N/A"),
                   date         |-> Get(permit, "date", "N/A"),
                   industry     |-> Get(permit, "industry", "N/A"),
                   value        |-> Get(permit, "value", "N/A"),
                   class        |-> IF Truthy(permit, "priority")
                                    THEN "lead priority" ELSE "lead "]
        phone   == IF Truthy(permit, "phone")
                   THEN Put(always, "phone", permit["phone"]) ELSE always
    IN  IF Truthy(permit, "website")
        THEN Put(phone, "website", permit["website"]) ELSE phone

\* LeadMonitor._format_incident_html
format_incident_html(incident) ==
    LET always == [name              |-> Get(incident, "name", "N/A"),
                   address           |-> Get(incident, "address", "N/A"),
                   city              |-> Get(incident, "city", "N/A"),
                   industry          |-> Get(incident, "industry", "N/A"),
                   date              |-> Get(incident, "date", "N/A"),
                   description       |-> Get(incident, "description", "N/A"),
                   inspection_number |-> Get(incident, "inspection_number", "N/A"),
                   class             |-> "lead priority"]
    IN  IF Truthy(incident, "phone")
        THEN Put(always, "phone", incident["phone"]) ELSE always

\* LeadMonitor.generate_email_report
generate_email_report(h, the_permits, osha_incidents) ==
    [permits   |-> Len(the_permits),
     incidents |-> Len(osha_incidents),
     total     |-> Len(the_permits) + Len(osha_incidents),
     notes     |-> (IF the_permits = <<>> THEN {"No new permits found today."}
                    ELSE {})
                   \cup (IF osha_incidents = <<>>
                         THEN {"No new incidents found today."} ELSE {}),
     listing   |->
         [i \in 1..Len(the_permits) |->
             [kind |-> "permit", ref |-> the_permits[i],
              shown |-> format_permit_html(h[the_permits[i]])]]
         \o [i \in 1..Len(osha_incidents) |->
             [kind |-> "incident", ref |-> osha_incidents[i],
              shown |-> format_incident_html(h[osha_incidents[i]])]]]

\* the characters of the strings compared here, in the order of their codes
CodeOrder == " -0123456789ABCDEFGHIJKLMNOPQRSTUVWXYZabcdefghijklmnopqrstuvwxyz"

CodeOf(c) == CHOOSE i \in 1..Len(CodeOrder) : CharAt(CodeOrder, i) = c

\* a < b for two str
RECURSIVE StrLess(_, _)
StrLess(a, b) ==
    IF b = "" THEN FALSE
    ELSE IF a = "" THEN TRUE
    ELSE IF CharAt(a, 1) = CharAt(b, 1)
         THEN StrLess(SubSeq(a, 2, Len(a)), SubSeq(b, 2, Len(b)))
         ELSE CodeOf(CharAt(a, 1)) < CodeOf(CharAt(b, 1))

\* the keys of the dict built by `if k not in d: d[k] = []`, in the order
\* of their insertion
RECURSIVE KeysSeen(_, _, _, _, _, _)
KeysSeen(h, leads, key, default, i, seen) ==
    IF i > Len(leads) THEN seen
    ELSE LET k == Get(h[leads[i]], key, default)
         IN  KeysSeen(h, leads, key, default, i + 1,
                      IF k \in Range(seen) THEN seen ELSE Append(seen, k))

\* the grouping with `if key in lead:` in the place of the default
Bucket_present_only(h, leads, key, default, k) ==
    SelectSeq(leads, LAMBDA id : key \in DOMAIN h[id] /\ h[id][key] = k)

\* d[k]: the leads appended under k
Bucket(h, leads, key, default, k) ==
    SelectSeq(leads, LAMBDA id : Get(h[id], key, default) = k)

\* sorted(), by a sort key given for each element: x goes behind every
\* element whose sort key is not larger than its own
RECURSIVE InsertSorted(_, _, _, _)
InsertSorted(x, sorted, sort_key, i) ==
    IF i > Len(sorted) THEN Append(sorted, x)
    ELSE IF sort_key[x] < sort_key[sorted[i]]
         THEN SubSeq(sorted, 1, i - 1) \o << x >> \o SubSeq(sorted, i, Len(sorted))
         ELSE InsertSorted(x, sorted, sort_key, i + 1)

RECURSIVE SortedFrom(_, _, _, _)
SortedFrom(s, sort_key, i, sorted) ==
    IF i > Len(s) THEN sorted
    ELSE SortedFrom(s, sort_key, i + 1, InsertSorted(s[i], sorted, sort_key, 1))

Sorted(s, sort_key) == SortedFrom(s, sort_key, 1, <<>>)

\* sorted(keys) of str keys: a key sorts by the number of keys below it
SortedStrings(s) ==
    Sorted(s, [k \in Range(s) |->
                  Cardinality({ x \in Range(s) : StrLess(x, k) })])

\* (count / len(leads) * 100) shown with one decimal, in tenths of a percent
Percentage(count, total) ==
    IF total = 0 THEN 0 ELSE (2000 * count + total) \div (2 * total)

\* the sort without reverse=True
industries_sorted_ascending(h, leads) ==
    LET keys == KeysSeen(h, leads, "matched_keyword", "Other", 1, <<>>)
    IN  Sorted(keys, [k \in Range(keys) |->
                         Len(Bucket(h, leads, "matched_keyword", "Other", k))])

\* sorted(by_industry.keys(), key=lambda x: len(by_industry[x]), reverse=True)
industries_sorted(h, leads) ==
    LET keys == KeysSeen(h, leads, "matched_keyword", "Other", 1, <<>>)
    IN  Sorted(keys, [k \in Range(keys) |->
                         0 - Len(Bucket(h, leads, "matched_keyword", "Other", k))])

\* HistoricalDataCollector.create_summary_report
create_summary_report(h, leads) ==
    LET by_month == KeysSeen(h, leads, "search_month", "Unknown", 1, <<>>)
        by_industry == KeysSeen(h, leads, "matched_keyword", "Other", 1, <<>>)
        months == SortedStrings(by_month)
        industries == industries_sorted(h, leads)
    IN  [total       |-> Len(leads),
         months      |-> Len(by_month),
         industries  |-> Len(by_industry),
         month_rows  |->
             [i \in 1..Len(months) |->
                 LET count == Len(Bucket(h, leads, "search_month", "Unknown", months[i]))
                 IN  [label |-> months[i], key |-> months[i], count |-> count,
                      percentage |-> Percentage(count, Len(leads))]],
         industry_rows |->
             [i \in 1..Len(industries) |->
                 LET count == Len(Bucket(h, leads, "matched_keyword", "Other",
                                         industries[i]))
                 IN  [label |-> Title(industries[i]), key |-> industries[i],
                      count |-> count,
                      percentage |-> Percentage(count, Len(leads))]]]

(***************************************************************************)
(* The files and the mail.  A table is its columns and, per row, the cell  *)
(* of each column; a value pandas writes as an empty cell is "".           *)
(***************************************************************************)
\* the keys of the lead dicts, in an order that agrees with the order in
\* which each collector and filter inserts them
KeyOrder ==
    << "date_found", "source", "title", "company", "description", "url",
       "published_date", "date", "search_query", "search_month", "type",
       "priority", "state", "matched_keyword", "county", "city",
       "note", "recommendation" >>

\* list(lead.keys())
Keys(lead) == SelectSeq(KeyOrder, LAMBDA k : k \in DOMAIN lead)

\* the columns of pd.DataFrame(leads): the keys in the order they are met
RECURSIVE ColumnsFrom(_, _, _, _)
ColumnsFrom(h, leads, i, columns) ==
    IF i > Len(leads) THEN columns
    ELSE ColumnsFrom(h, leads, i + 1,
             columns \o SelectSeq(Keys(h[leads[i]]),
                                  LAMBDA k : k \notin Range(columns)))

\* pd.DataFrame(leads).to_csv(filename, index=False)
DataFrame_to_csv(h, leads) ==
    LET columns == ColumnsFrom(h, leads, 1, <<>>)
    IN  [columns |-> columns,
         rows    |-> [i \in 1..Len(leads) |->
                        [c \in Range(columns) |-> Get(h[leads[i]], c, "")]]]

\* the columns of the dicts LeadMonitor.save_to_csv builds
LM_columns ==
    << "date_found", "type", "name", "address", "city", "county", "industry",
       "phone", "website", "details", "priority" >>

LM_csv_row(item, type, details_key, priority) ==
    [date_found |-> Today,
     type       |-> type,
     name       |-> Get(item, "name", ""),
     address    |-> Get(item, "address", ""),
     city       |-> Get(item, "city", ""),
     county     |-> Get(item, "county", ""),
     industry   |-> Get(item, "industry", ""),
     phone      |-> Get(item, "phone", ""),
     website    |-> Get(item, "website", ""),
     details    |-> Get(item, details_key, ""),
     priority   |-> priority]

\* LeadMonitor.save_to_csv: the table written, or no file for no lead
save_to_csv(h, the_permits, osha_incidents) ==
    LET all == [i \in 1..Len(the_permits) |->
                   LM_csv_row(h[the_permits[i]], "Permit", "project_type", "Medium")]
               \o [i \in 1..Len(osha_incidents) |->
                   LM_csv_row(h[osha_incidents[i]], "OSHA Incident",
                              "description", "High")]
    IN  IF all = <<>> THEN [written |-> FALSE]
        ELSE [written |-> TRUE, table |-> [columns |-> LM_columns, rows |-> all]]

\* LeadMonitor.save_to_file; disk: whether open()/write() raises
save_to_file(html_content, disk) ==
    IF disk = "raise" THEN [written |-> FALSE, raised |-> TRUE]
    ELSE [written |-> TRUE, raised |-> FALSE, content |-> html_content]

\* send_email whose except clause only prints the error
send_email_no_fallback(html_content, smtp_password, smtp, disk) ==
    IF smtp_password = ""
    THEN LET f == save_to_file(html_content, disk)
         IN  [delivery |-> "no_password", sent |-> <<>>,
              saves |-> << html_content >>, file |-> f, raised |-> f.raised]
    ELSE IF smtp = "ok"
         THEN [delivery |-> "ok", sent |-> << html_content >>, saves |-> <<>>,
               file |-> [written |-> FALSE, raised |-> FALSE], raised |-> FALSE]
         ELSE [delivery |-> "raise", sent |-> <<>>, saves |-> <<>>,
               file |-> [written |-> FALSE, raised |-> FALSE], raised |-> FALSE]

\* send_email with the calls of save_to_file wrapped in try/except
send_email_swallow(html_content, smtp_password, smtp, disk) ==
    IF smtp_password # "" /\ smtp = "ok"
    THEN [delivery |-> "ok", sent |-> << html_content >>, saves |-> <<>>,
          file |-> [written |-> FALSE, raised |-> FALSE], raised |-> FALSE]
    ELSE [delivery |-> IF smtp_password = "" THEN "no_password" ELSE "raise",
          sent |-> <<>>, saves |-> << html_content >>,
          file |-> save_to_file(html_content, disk), raised |-> FALSE]

\* LeadMonitor.send_email; smtp_password: the GMAIL_APP_PASSWORD of the
\* environment ("" for none), smtp: whether the SMTP session raises
send_email(html_content, smtp_password, smtp, disk) ==
    IF smtp_password = ""
    THEN LET f == save_to_file(html_content, disk)
         IN  [delivery |-> "no_password", sent |-> <<>>,
              saves |-> << html_content >>, file |-> f, raised |-> f.raised]
    ELSE IF smtp = "ok"
         THEN [delivery |-> "ok", sent |-> << html_content >>, saves |-> <<>>,
               file |-> [written |-> FALSE, raised |-> FALSE], raised |-> FALSE]
         ELSE LET f == save_to_file(html_content, disk)
              IN  [delivery |-> "raise", sent |-> <<>>,
                   saves |-> << html_content >>, file |-> f, raised |-> f.raised]

(***************************************************************************)
(* The state of one run.                                                   *)
(***************************************************************************)
VARIABLES
    variant,         \* which script runs: "historical", "production", "monitor"
    pc,              \* the stage the run is at
    idx,             \* the next pass of the collection loop of the stage
    heap,            \* the lead dicts created so far, by reference
    news,            \* all_news (historical) / leads of search_google_news (production)
    permits,         \* self.permits (monitor)
    osha,            \* osha_leads / self.osha_incidents
    all_leads,       \* all_leads of run / run_full_scan
    filtered_leads,  \* the industry filter's result
    final_leads,     \* the county filter's result (historical)
    last,            \* the fetch, or the delivery, that ended last
    calls,           \* collector calls of the run that have returned
    report,          \* the report rendered
    files,           \* the files written, by kind: "csv", "json", "html"
    sent,            \* the mails delivered
    saves            \* the contents save_to_file was called with

vars == << variant, pc, idx, heap, news, permits, osha, all_leads,
           filtered_leads, final_leads, last, calls,
           report, files, sent, saves >>

\* what a run has rendered, written and sent
outputs == << report, files, sent, saves >>

NoReport == [total |-> 0, listing |-> <<>>, notes |-> {}]

NoFiles == << >>

NoCall == [site |-> "none", outcome |-> "ok", warned |-> FALSE,
           dropped |-> 0, reported |-> 0]

CallRecord(site, outcome, r) ==
    [site |-> site, outcome |-> outcome, warned |-> r.warned,
     dropped |-> IF "dropped" \in DOMAIN r THEN r.dropped ELSE 0,
     reported |-> IF "reported" \in DOMAIN r THEN r.reported ELSE 0]

\* the references of n dicts added to heap h
NewRefs(h, n) == [i \in 1..n |-> Len(h) + i]

\* how many items a feed may still carry
Room == IF MaxLeads < Len(heap) THEN 0 ELSE MaxLeads - Len(heap)

FeedsFor(outcome, S) == IF outcome = "ok" THEN SeqsUpTo(S, Room) ELSE {<<>>}

\* collect_news_historical calls search_google_news_by_month once per month
\* and query
H_NewsCalls == NumMonths * Len(ModelQueries)

Init ==
    /\ variant \in {"historical", "production", "monitor"}
    /\ pc = IF variant = "monitor" THEN "permits" ELSE "news"
    /\ idx = 1
    /\ heap = <<>>
    /\ news = <<>>
    /\ permits = <<>>
    /\ osha = <<>>
    /\ all_leads = <<>>
    /\ filtered_leads = <<>>
    /\ final_leads = <<>>
    /\ last = NoCall
    /\ calls = 0
    /\ report = NoReport
    /\ files = NoFiles
    /\ sent = <<>>
    /\ saves = <<>>

\* an exception left a collector call: the run ends with a traceback
Crash ==
    /\ pc' = "crashed"
    /\ UNCHANGED << variant, idx, heap, news, permits, osha, all_leads,
                    filtered_leads, final_leads, last, calls, outputs >>

(***************************************************************************)
(* HistoricalDataCollector.run                                             *)
(***************************************************************************)
\* one pass of the loops of collect_news_historical
H_SearchNews ==
    /\ variant = "historical" /\ pc = "news"
    /\ \E outcome \in Outcomes : \E items \in FeedsFor(outcome, Articles) :
         LET month == ((idx - 1) \div Len(ModelQueries)) + 1
             query == ModelQueries[((idx - 1) % Len(ModelQueries)) + 1]
             r == search_google_news_by_month(query, 2025, month, outcome, items)
         IN  IF r.raised THEN Crash
             ELSE /\ heap' = heap \o r.leads
                  /\ news' = news \o NewRefs(heap, Len(r.leads))
                  /\ last' = CallRecord("news", outcome, r)
                  /\ calls' = calls + 1
                  /\ IF idx < H_NewsCalls
                     THEN idx' = idx + 1 /\ pc' = "news"
                     ELSE idx' = 1 /\ pc' = "osha"
                  /\ UNCHANGED << variant, permits, osha, all_leads,
                                  filtered_leads, final_leads, outputs >>

\* search_osha_historical, then all_leads = news_leads + osha_leads
H_SearchOsha ==
    /\ variant = "historical" /\ pc = "osha"
    /\ \E outcome \in Outcomes :
         LET r == search_osha_historical(outcome)
             refs == NewRefs(heap, Len(r.leads))
         IN  IF r.raised THEN Crash
             ELSE /\ heap' = heap \o r.leads
                  /\ osha' = refs
                  /\ all_leads' = news \o refs
                  /\ last' = CallRecord("osha", outcome, r)
                  /\ calls' = calls + 1
                  /\ pc' = "filter_industries"
                  /\ UNCHANGED << variant, idx, news, permits,
                                  filtered_leads, final_leads, outputs >>

H_FilterIndustries ==
    /\ variant = "historical" /\ pc = "filter_industries"
    /\ LET r == H_filter_by_target_industries(heap, all_leads)
       IN  /\ heap' = r.heap
           /\ filtered_leads' = r.out
    /\ pc' = "filter_counties"
    /\ UNCHANGED << variant, idx, news, permits, osha, all_leads,
                    final_leads, last, calls, outputs >>

H_FilterCounties ==
    /\ variant = "historical" /\ pc = "filter_counties"
    /\ LET r == filter_by_target_counties(heap, filtered_leads)
       IN  /\ heap' = r.heap
           /\ final_leads' = r.out
    /\ pc' = "done"
    /\ UNCHANGED << variant, idx, news, permits, osha, all_leads,
                    filtered_leads, last, calls, outputs >>

\* `if final_leads: self.save_results(final_leads)`: the CSV file, the JSON
\* file, then create_summary_report and its HTML file
H_SaveResults ==
    /\ variant = "historical" /\ pc = "done"
    /\ IF final_leads = <<>>
       THEN UNCHANGED << report, files >>
       ELSE /\ report' = create_summary_report(heap, final_leads)
            /\ files' = Put(Put(Put(files,
                                    "csv", DataFrame_to_csv(heap, final_leads)),
                                "json", [i \in 1..Len(final_leads) |->
                                            heap[final_leads[i]]]),
                            "html", report')
    /\ pc' = "complete"
    /\ UNCHANGED << variant, idx, heap, news, permits, osha, all_leads,
                    filtered_leads, final_leads, last, calls, sent, saves >>

(***************************************************************************)
(* ProductionLeadMonitor.run_full_scan                                     *)
(***************************************************************************)
\* one pass of the loop of search_google_news; when the function returns,
\* run_full_scan extends all_leads with its leads
P_SearchNewsQuery ==
    /\ variant = "production" /\ pc = "news"
    /\ \E outcome \in Outcomes : \E items \in FeedsFor(outcome, Articles) :
         LET r == search_google_news_query(ModelSearchQueries[idx], outcome, items)
             returns == r.exit \/ idx = Len(ModelSearchQueries)
         IN  IF r.raised THEN Crash
             ELSE /\ heap' = heap \o r.leads
                  /\ news' = news \o NewRefs(heap, Len(r.leads))
                  /\ last' = CallRecord("news", outcome, r)
                  /\ IF returns
                     THEN /\ idx' = 1 /\ pc' = "osha"
                          /\ calls' = calls + 1
                          /\ all_leads' = all_leads \o news'
                     ELSE /\ idx' = idx + 1 /\ pc' = "news"
                          /\ UNCHANGED << calls, all_leads >>
                  /\ UNCHANGED << variant, permits, osha,
                                  filtered_leads, final_leads, outputs >>

\* search_osha_data("MA"), then all_leads.extend(osha_leads)
P_SearchOsha ==
    /\ variant = "production" /\ pc = "osha"
    /\ \E outcome \in Outcomes :
       \E divs \in FeedsFor(outcome, OshaDivs) :
         LET r == search_osha_data("MA", outcome, divs)
             refs == NewRefs(heap, Len(r.leads))
         IN  IF r.raised THEN Crash
             ELSE /\ heap' = heap \o r.leads
                  /\ osha' = refs
                  /\ all_leads' = all_leads \o refs
                  /\ last' = CallRecord("osha", outcome, r)
                  /\ calls' = calls + 1
                  /\ pc' = "filter_industries"
                  /\ UNCHANGED << variant, idx, news, permits,
                                  filtered_leads, final_leads, outputs >>

P_FilterIndustries ==
    /\ variant = "production" /\ pc = "filter_industries"
    /\ LET r == P_filter_by_target_industries(heap, all_leads, target_keywords)
       IN  /\ heap' = r.heap
           /\ filtered_leads' = r.out
    /\ pc' = "done"
    /\ UNCHANGED << variant, idx, news, permits, osha, all_leads,
                    final_leads, last, calls, outputs >>

\* the rest of __main__: the CSV file for a non-empty result, then
\* format_leads_for_email and the HTML file
P_Main ==
    /\ variant = "production" /\ pc = "done"
    /\ report' = format_leads_for_email(heap, filtered_leads)
    /\ files' = Put(IF filtered_leads = <<>> THEN files
                    ELSE Put(files, "csv", DataFrame_to_csv(heap, filtered_leads)),
                    "html", report')
    /\ pc' = "complete"
    /\ UNCHANGED << variant, idx, heap, news, permits, osha, all_leads,
                    filtered_leads, final_leads, last, calls, sent, saves >>

(***************************************************************************)
(* LeadMonitor.run                                                         *)
(***************************************************************************)
\* one pass of the loops of search_ma_permits
M_SearchCity ==
    /\ variant = "monitor" /\ pc = "permits"
    /\ \E outcome \in {"raise", "ok"} :
       \E permit_data \in FeedsFor(outcome, PermitRecords) :
         LET r == search_city(LM_cities[idx][2], LM_cities[idx][1], outcome, permit_data)
         IN  IF r.raised THEN Crash
             ELSE /\ heap' = heap \o r.leads
                  /\ permits' = permits \o NewRefs(heap, Len(r.leads))
                  /\ last' = CallRecord("permit", outcome, r)
                  /\ calls' = calls + 1
                  /\ IF idx < Len(LM_cities)
                     THEN idx' = idx + 1 /\ pc' = "permits"
                     ELSE idx' = 1 /\ pc' = "osha"
                  /\ UNCHANGED << variant, news, osha, all_leads,
                                  filtered_leads, final_leads, outputs >>

M_SearchOsha ==
    /\ variant = "monitor" /\ pc = "osha"
    /\ \E outcome \in {"raise", "ok"} :
       \E incidents \in FeedsFor(outcome, IncidentRecords) :
         LET r == search_osha_incidents(outcome, incidents)
         IN  IF r.raised THEN Crash
             ELSE /\ heap' = heap \o r.leads
                  /\ osha' = osha \o NewRefs(heap, Len(r.leads))
                  /\ last' = CallRecord("osha", outcome, r)
                  /\ calls' = calls + 1
                  /\ pc' = "filter_industries"
                  /\ UNCHANGED << variant, idx, news, permits, all_leads,
                                  filtered_leads, final_leads, outputs >>

\* self.permits = filter_by_industry(self.permits), then the same for
\* self.osha_incidents
M_FilterIndustry ==
    /\ variant = "monitor" /\ pc = "filter_industries"
    /\ LET p == filter_by_industry(heap, permits)
           o == filter_by_industry(p.heap, osha)
       IN  /\ heap' = o.heap
           /\ permits' = p.out
           /\ osha' = o.out
    /\ pc' = "done"
    /\ UNCHANGED << variant, idx, news, all_leads, filtered_leads,
                    final_leads, last, calls, outputs >>

\* html_report = self.generate_email_report()
M_GenerateReport ==
    /\ variant = "monitor" /\ pc = "done"
    /\ report' = generate_email_report(heap, permits, osha)
    /\ pc' = "send"
    /\ UNCHANGED << variant, idx, heap, news, permits, osha, all_leads,
                    filtered_leads, final_leads, last, calls, files, sent, saves >>

\* self.send_email(html_report); an exception of save_to_file leaves
\* send_email and run
M_SendEmail ==
    /\ variant = "monitor" /\ pc = "send"
    /\ \E smtp_password \in {"", "app-password"} :
       \E smtp \in {"ok", "raise"} : \E disk \in {"ok", "raise"} :
         LET r == send_email(report, smtp_password, smtp, disk)
         IN  /\ sent' = sent \o r.sent
             /\ saves' = saves \o r.saves
             /\ files' = IF r.file.written
                         THEN Put(files, "html", r.file.content) ELSE files
             /\ last' = [site |-> "mail", outcome |-> r.delivery,
                         warned |-> r.delivery # "ok", dropped |-> 0,
                         reported |-> 0]
             /\ pc' = IF r.raised THEN "aborted" ELSE "csv"
    /\ UNCHANGED << variant, idx, heap, news, permits, osha, all_leads,
                    filtered_leads, final_leads, calls, report >>

\* self.save_to_csv(), then the closing prints of run
M_SaveCsv ==
    /\ variant = "monitor" /\ pc = "csv"
    /\ LET r == save_to_csv(heap, permits, osha)
       IN  files' = IF r.written THEN Put(files, "csv", r.table) ELSE files
    /\ pc' = "complete"
    /\ UNCHANGED << variant, idx, heap, news, permits, osha, all_leads,
                    filtered_leads, final_leads, last, calls, report, sent, saves >>

Next ==
    \/ H_SearchNews
    \/ H_SearchOsha
    \/ H_FilterIndustries
    \/ H_FilterCounties
    \/ H_SaveResults
    \/ P_SearchNewsQuery
    \/ P_SearchOsha
    \/ P_FilterIndustries
    \/ P_Main
    \/ M_SearchCity
    \/ M_SearchOsha
    \/ M_FilterIndustry
    \/ M_GenerateReport
    \/ M_SendEmail
    \/ M_SaveCsv

Spec == Init /\ [][Next]_vars

(***************************************************************************)
(* The report functions called on their own, with any list of leads.       *)
(***************************************************************************)
\* lead dicts a caller can pass: leads as the pipelines leave them, a lead
\* of another source, and the OSHA note of search_osha_historical
CallLeads ==
    { [source |-> "Google News", title |-> "New Restaurant Opens in Cambridge",
       description |-> "", url |-> "https://news.example/a1",
       date |-> "Sat, 01 Mar 2025", date_found |-> Today,
       search_query |-> "new restaurant opening Massachusetts",
       search_month |-> "2025-02", type |-> "News Mention",
       matched_keyword |-> "restaurant"],
      [source |-> "Google News", title |-> "Hotel Bar Reopens",
       description |-> "Quincy and Cambridge venues",
       url |-> "https://news.example/a2", date_found |-> Today,
       search_query |-> "new hotel Massachusetts",
       search_month |-> "2025-01", type |-> "News Mention",
       matched_keyword |-> "bar"],
      [source |-> "OSHA", company |-> "Mercy Hospital",
       description |-> "Mercy Hospital Worcester MA wet floor fall",
       type |-> "Safety Incident", priority |-> "High", state |-> "MA",
       matched_keyword |-> "hospital"],
      [source |-> "Building Permit", title |-> "Harbor Restaurant fit-out",
       description |-> "Quincy", type |-> "Permit"],
      [source |-> "OSHA",
       note |-> "Historical OSHA data requires accessing their bulk downloads",
       recommendation |-> "Focus on recent incidents (last 90 days) for highest value"] }

InitCalls ==
    /\ variant = "call"
    /\ pc = "call"
    /\ idx = 1
    /\ heap \in SeqsUpTo(CallLeads, MaxCallLeads)
    /\ all_leads = NewRefs(<<>>, Len(heap))
    /\ news = <<>>
    /\ permits = <<>>
    /\ osha = <<>>
    /\ filtered_leads = <<>>
    /\ final_leads = <<>>
    /\ last = NoCall
    /\ calls = 0
    /\ report = NoReport
    /\ files = NoFiles
    /\ sent = <<>>
    /\ saves = <<>>

\* format_leads_for_email(leads)
Call_format_leads_for_email ==
    /\ variant = "call" /\ pc = "call"
    /\ report' = format_leads_for_email(heap, all_leads)
    /\ pc' = "format_leads_for_email"
    /\ UNCHANGED << variant, idx, heap, news, permits, osha, all_leads,
                    filtered_leads, final_leads, last, calls, files, sent, saves >>

\* HistoricalDataCollector().create_summary_report(leads), with the file it
\* writes
Call_create_summary_report ==
    /\ variant = "call" /\ pc = "call"
    /\ report' = create_summary_report(heap, all_leads)
    /\ files' = Put(files, "html", report')
    /\ pc' = "create_summary_report"
    /\ UNCHANGED << variant, idx, heap, news, permits, osha, all_leads,
                    filtered_leads, final_leads, last, calls, sent, saves >>

NextCalls ==
    \/ Call_format_leads_for_email
    \/ Call_create_summary_report

SpecCalls == InitCalls /\ [][NextCalls]_vars

(***************************************************************************)
(* What the properties below speak about.                                  *)
(***************************************************************************)
\* the lead set a run ends with
FinalResult ==
    CASE variant = "historical" -> final_leads
      [] variant = "production" -> filtered_leads
      [] variant = "monitor"    -> permits \o osha

\* the collector calls a run makes: run() of the historical script one per
\* month and query and one for OSHA, run_full_scan one for Google News and
\* one for OSHA, LeadMonitor.run one per city and one for OSHA
ScheduledCalls ==
    CASE variant = "historical" -> H_NewsCalls + 1
      [] variant = "production" -> 2
      [] variant = "monitor"    -> Len(LM_cities) + 1

\* the lists the collectors have handed to the run
Collected ==
    IF variant = "monitor" THEN Range(permits) \cup Range(osha)
    ELSE Range(all_leads)

\* k is a case-insensitive substring of t
ContainsCI(t, k) == Contains(Lower(t), Lower(k))

\* the free text of a lead, as written in its fields
H_raw_text(lead) ==
    Get(lead, "title", "") \o " " \o Get(lead, "description", "")
        \o " " \o Get(lead, "search_query", "")

P_raw_text(lead) ==
    Get(lead, "title", "") \o " " \o Get(lead, "description", "")
        \o " " \o Get(lead, "company", "") \o " " \o Get(lead, "category", "")

geo_raw_text(lead) ==
    Get(lead, "title", "") \o " " \o Get(lead, "description", "")

\* the industry filter of the run's script has run: its input, its keyword
\* list, the text it is specified on
IndustryFiltered ==
    \/ variant = "historical" /\ pc \in {"filter_counties", "done"}
    \/ variant = "production" /\ pc = "done"

IndustryKeywords ==
    IF variant = "historical" THEN TARGET_INDUSTRIES ELSE target_keywords

\* the same list, each keyword lowered
IndustryKeywordsLower ==
    IF variant = "historical" THEN TARGET_INDUSTRIES_lower ELSE target_keywords_lower

IndustryRawText(lead) ==
    IF variant = "historical" THEN H_raw_text(lead) ELSE P_raw_text(lead)

Stamped(lead, key) == key \in DOMAIN lead /\ lead[key] # ""

AllCities == UNION { Range(cities[i].city_list) : i \in 1..Len(cities) }

AllCitiesLower == { Lower(c) : c \in AllCities }

\* (source, title/name, date found)
BusinessKey(lead) ==
    << Get(lead, "source", ""),
       IF "title" \in DOMAIN lead THEN lead["title"] ELSE Get(lead, "name", ""),
       Get(lead, "date_found", "") >>

(***************************************************************************)
(* C1.  An exception raised inside a collector call never leaves the call: *)
(* no run ends with a traceback, every run makes all of its collector      *)
(* calls, and every lead a call has returned is in the collected lists     *)
(* handed to the filters.                                                  *)
(***************************************************************************)
C1_FailuresIsolated ==
    /\ pc # "crashed"
    /\ pc = "filter_industries" =>
          /\ calls = ScheduledCalls
          /\ \A id \in 1..Len(heap) : id \in Collected

\* a run whose OSHA fetch raised reaches the filters with the news leads
C1_Witness ==
    /\ variant = "historical" /\ pc = "filter_industries"
    /\ last.outcome = "raise"
    /\ all_leads # <<>>

(***************************************************************************)
(* C2.  A source whose collector failed contributes no lead: when          *)
(* search_google_news returns after one of its queries raised, the list it *)
(* returns is empty, and an OSHA fetch that raised leaves no OSHA lead.     *)
(***************************************************************************)
C2_FailedSourceContributesNothing ==
    /\ (variant = "production" /\ pc = "osha" /\ last.outcome = "raise")
          => news = <<>>
    /\ (pc = "filter_industries" /\ last.outcome = "raise") => osha = <<>>

(***************************************************************************)
(* C3.  Every collector failure is reported: a fetch that raised or was    *)
(* answered with a non-200 status has printed an error, and so has every   *)
(* OSHA item whose parsing raised.                                         *)
(***************************************************************************)
C3_EveryFailureReported ==
    /\ last.outcome \in {"raise", "http"} => last.warned
    /\ last.reported = last.dropped

(***************************************************************************)
(* C4.  The industry filter keeps a lead exactly when some configured      *)
(* keyword is a case-insensitive substring of the lead's concatenated      *)
(* text; the stamp of a kept lead is a configured keyword that is such a   *)
(* substring; a dropped lead has no stamp.                                 *)
(***************************************************************************)
C4_IndustryFilterIff ==
    IndustryFiltered =>
        \A id \in Range(all_leads) :
            LET lead == heap[id]
                text == Lower(IndustryRawText(lead))
                kept == id \in Range(filtered_leads)
                kws == IndustryKeywords
                lowered == IndustryKeywordsLower
            IN  /\ kept <=> \E i \in 1..Len(kws) : Contains(text, lowered[i])
                /\ kept => /\ "matched_keyword" \in DOMAIN lead
                           /\ \E i \in 1..Len(kws) :
                                 /\ lead["matched_keyword"] = kws[i]
                                 /\ Contains(text, lowered[i])
                /\ ~kept => "matched_keyword" \notin DOMAIN lead

\* the production filter has kept a lead whose title holds its keyword in
\* another case, and dropped one with no keyword
C4_Witness ==
    /\ variant = "production" /\ pc = "done"
    /\ \E id \in Range(filtered_leads) :
          /\ heap[id]["matched_keyword"] = "restaurant"
          /\ Contains(heap[id]["title"], "Restaurant")
    /\ \E id \in Range(all_leads) : id \notin Range(filtered_leads)

(***************************************************************************)
(* C5.  The stamp is the first keyword, in the order of the configured     *)
(* list, that occurs in the text (not the longest one), and leads with the *)
(* same text get the same stamp.                                           *)
(***************************************************************************)
C5_FirstMatchWins ==
    IndustryFiltered =>
        /\ \A id \in Range(filtered_leads) :
              LET text == Lower(IndustryRawText(heap[id]))
                  kws == IndustryKeywords
                  lowered == IndustryKeywordsLower
              IN  \E i \in 1..Len(kws) :
                      /\ heap[id]["matched_keyword"] = kws[i]
                      /\ Contains(text, lowered[i])
                      /\ \A j \in 1..(i - 1) : ~Contains(text, lowered[j])
        /\ \A a, b \in Range(filtered_leads) :
              IndustryRawText(heap[a]) = IndustryRawText(heap[b])
                  => heap[a]["matched_keyword"] = heap[b]["matched_keyword"]

\* a lead whose text holds "bar" and the longer, later "hotel" is stamped
\* "bar"
C5_Witness ==
    /\ variant = "historical" /\ pc = "filter_counties"
    /\ \E id \in Range(filtered_leads) :
          /\ heap[id]["matched_keyword"] = "bar"
          /\ ContainsCI(H_raw_text(heap[id]), "hotel")

(***************************************************************************)
(* C6.  Every lead retained by the industry filter carries a non-empty     *)
(* matched keyword, in the historical, the production and the monitor      *)
(* variant of the filter.                                                  *)
(***************************************************************************)
C6_RetainedLeadsCarryKeyword ==
    /\ IndustryFiltered =>
          \A id \in Range(filtered_leads) : Stamped(heap[id], "matched_keyword")
    /\ (variant = "monitor" /\ pc = "done") =>
          \A id \in Range(permits) \cup Range(osha) :
              Stamped(heap[id], "matched_keyword")

(***************************************************************************)
(* C7.  Every lead of the final result of a run carries a county of the    *)
(* target set or a city of the city table.                                 *)
(***************************************************************************)
C7_FinalLeadsPassedGeography ==
    pc = "done" =>
        \A id \in Range(FinalResult) :
            \/ Get(heap[id], "county", "") \in Range(TARGET_COUNTIES)
            \/ Lower(Get(heap[id], "city", "")) \in AllCities

C9_CityStampsConsistent ==
    (variant = "historical" /\ pc = "done") =>
        \A id \in Range(filtered_leads) :
            LET lead == heap[id]
                text == Lower(geo_raw_text(lead))
            IN  (\E c \in AllCities : Contains(text, c)) =>
                    /\ InList(heap, id, final_leads)
                    /\ "city" \in DOMAIN lead /\ "county" \in DOMAIN lead
                    /\ \E i \in 1..Len(cities) : \E c \in Range(cities[i].city_list) :
                          /\ Contains(text, c)
                          /\ lead["city"] = Title(c)
                          /\ lead["county"] = cities[i].county

\* "New Restaurant Opens in Cambridge" ends as restaurant, Middlesex,
\* Cambridge, and a lead naming cities of two counties is kept as well
C9_Witness ==
    /\ variant = "historical" /\ pc = "done"
    /\ \E id \in Range(final_leads) :
          /\ heap[id]["title"] = "New Restaurant Opens in Cambridge"
          /\ heap[id]["matched_keyword"] = "restaurant"
          /\ heap[id]["county"] = "Middlesex"
          /\ heap[id]["city"] = "Cambridge"
    /\ \E id \in Range(final_leads) :
          /\ ContainsCI(geo_raw_text(heap[id]), "quincy")
          /\ ContainsCI(geo_raw_text(heap[id]), "cambridge")

(***************************************************************************)
(* C10.  The final lead set of a run holds no two leads with the same      *)
(* (source, title/name, date found).                                       *)
(***************************************************************************)
C10_NoDuplicateKeys ==
    pc = "done" =>
        \A i, j \in 1..Len(FinalResult) :
            i # j => BusinessKey(heap[FinalResult[i]]) # BusinessKey(heap[FinalResult[j]])

\* where x stands in the list s
PositionIn(s, x) == CHOOSE i \in 1..Len(s) : s[i] = x

(***************************************************************************)
(* C11.  The duplicate-removing guard of filter_by_target_counties is      *)
(* idempotent and stable: the filter applied to its own output returns     *)
(* the same leads in the same order with the same stamps; the output keeps *)
(* the order of the input and holds no lead twice; and a lead dropped as a *)
(* duplicate has an equal lead earlier in the input that survived.         *)
(***************************************************************************)
C11_DedupeIdempotentStable ==
    (variant = "historical" /\ pc = "done") =>
        LET again == filter_by_target_counties(heap, final_leads)
        IN  /\ again.out = final_leads
            /\ again.heap = heap
            /\ \A i, j \in 1..Len(final_leads) :
                  i < j => PositionIn(filtered_leads, final_leads[i])
                             < PositionIn(filtered_leads, final_leads[j])
            /\ \A id \in Range(filtered_leads) \ Range(final_leads) :
                  InList(heap, id, final_leads) =>
                      \E k \in Range(final_leads) :
                          /\ heap[k] = heap[id]
                          /\ PositionIn(filtered_leads, k)
                               < PositionIn(filtered_leads, id)

\* the guard has dropped the second of two equal leads
C11_Witness ==
    /\ variant = "historical" /\ pc = "done"
    /\ Len(final_leads) = 1
    /\ \E id \in Range(filtered_leads) \ Range(final_leads) :
          heap[id] = heap[final_leads[1]]

ListingRendered ==
    \/ variant = "production" /\ pc = "complete"
    \/ variant = "call" /\ pc = "format_leads_for_email"
    \/ variant = "monitor" /\ pc \in {"send", "csv", "complete", "aborted"}

\* the entries of High-priority safety incidents
HighPriorityKinds == {"OSHA INCIDENT", "incident"}

(***************************************************************************)
(* C13.  In every rendered detail listing all High-priority OSHA entries   *)
(* stand before every entry of another source.                             *)
(***************************************************************************)
C13_HighPriorityFirst ==
    ListingRendered =>
        \A i, j \in 1..Len(report.listing) :
            (i < j /\ report.listing[j].kind \in HighPriorityKinds)
                => report.listing[i].kind \in HighPriorityKinds

\* format_leads_for_email has rendered the report
EmailFormatted ==
    \/ variant = "production" /\ pc = "complete"
    \/ variant = "call" /\ pc = "format_leads_for_email"

(***************************************************************************)
(* C14.  For every list of leads given to format_leads_for_email, whatever *)
(* the sources of its leads, the number of rendered entries is the Total   *)
(* Leads count of the summary, and every lead of the list has exactly one  *)
(* entry.                                                                  *)
(***************************************************************************)
C14_OneEntryPerLead ==
    EmailFormatted =>
        /\ Len(report.listing) = report.total
        /\ \A id \in 1..Len(heap) :
              id \in Range(IF variant = "call" THEN all_leads ELSE filtered_leads)
                  => Cardinality({ i \in 1..Len(report.listing) :
                                      report.listing[i].ref = id }) = 1

\* the fields of the entry templates: << the field shown, the key of the
\* lead it shows >>
EntryTemplate(kind) ==
    CASE kind = "permit" ->
             { << k, k >> : k \in {"name", "address", "city", "county",
                                   "project_type", "date", "industry",
                                   "phone", "website", "value"} }
      [] kind = "incident" ->
             { << k, k >> : k \in {"name", "address", "city", "industry", "date",
                                   "description", "inspection_number", "phone"} }
      [] kind = "OSHA INCIDENT" ->
             { << "title", "company" >>, << "description", "description" >> }
      [] kind = "NEWS" ->
             { << k, k >> : k \in {"title", "description", "date",
                                   "matched_keyword"} }

(***************************************************************************)
(* C15.  A rendered entry omits no field of its template, the phone and    *)
(* the website of a permit or incident included: each field shows the      *)
(* lead's value, or 'N/A' when the lead has none.                          *)
(***************************************************************************)
C15_NoFieldOmitted ==
    ListingRendered =>
        \A i \in 1..Len(report.listing) :
            LET entry == report.listing[i]
            IN  \A f \in EntryTemplate(entry.kind) :
                    /\ f[1] \in DOMAIN entry.shown
                    /\ entry.shown[f[1]] = Get(heap[entry.ref], f[2], "N/A")

\* create_summary_report has rendered the report
SummaryRendered ==
    \/ variant = "call" /\ pc = "create_summary_report"
    \/ variant = "historical" /\ pc = "complete" /\ final_leads # <<>>

\* the leads it was given
SummaryInput == IF variant = "call" THEN all_leads ELSE final_leads

\* the leads of the input whose key (or its default) is k
CountIn(key, default, k) ==
    Cardinality({ i \in 1..Len(SummaryInput) :
                     Get(heap[SummaryInput[i]], key, default) = k })

RECURSIVE SumCounts(_, _)
SumCounts(rows, i) ==
    IF i > Len(rows) THEN 0 ELSE rows[i].count + SumCounts(rows, i + 1)

\* the rows are the buckets of a partition of the input by key
RowsPartition(rows, key, default) ==
    /\ \A i, j \in 1..Len(rows) : i # j => rows[i].key # rows[j].key
    /\ \A i \in 1..Len(rows) : rows[i].count = CountIn(key, default, rows[i].key)
    /\ \A p \in 1..Len(SummaryInput) :
          \E i \in 1..Len(rows) :
              rows[i].key = Get(heap[SummaryInput[p]], key, default)
    /\ SumCounts(rows, 1) = Len(SummaryInput)

(***************************************************************************)
(* C16.  In the summary report every lead is counted in exactly one month  *)
(* row and exactly one keyword row, a lead without search month under      *)
(* 'Unknown' and one without matched keyword under 'Other'; the counts of  *)
(* the month rows and those of the keyword rows each sum to the total.     *)
(***************************************************************************)
C16_BucketsPartition ==
    SummaryRendered =>
        /\ report.total = Len(SummaryInput)
        /\ RowsPartition(report.month_rows, "search_month", "Unknown")
        /\ RowsPartition(report.industry_rows, "matched_keyword", "Other")

\* a report of three leads, one of them with neither month nor keyword
C16_Witness ==
    /\ variant = "call" /\ pc = "create_summary_report"
    /\ report.total = 3
    /\ \E i \in 1..Len(report.month_rows) :
          report.month_rows[i].key = "Unknown" /\ report.month_rows[i].count = 1
    /\ \E i \in 1..Len(report.industry_rows) :
          report.industry_rows[i].key = "Other" /\ report.industry_rows[i].count = 1
    /\ Len(report.month_rows) = 3

(***************************************************************************)
(* C17.  The keyword rows of the summary report stand in non-increasing    *)
(* order of their counts.                                                  *)
(***************************************************************************)
C17_KeywordRowsDescending ==
    SummaryRendered =>
        \A i \in 1..(Len(report.industry_rows) - 1) :
            report.industry_rows[i].count >= report.industry_rows[i + 1].count

\* the keyword met first has one lead, the one met second has two and
\* stands first
C17_Witness ==
    /\ variant = "call" /\ pc = "create_summary_report"
    /\ Len(report.industry_rows) = 2
    /\ report.industry_rows[1].count = 2
    /\ report.industry_rows[2].count = 1
    /\ Get(heap[all_leads[1]], "matched_keyword", "Other") = report.industry_rows[2].key

\* send_email has ended, by return or by exception
MailHandled ==
    variant = "monitor" /\ pc \in {"csv", "complete", "aborted"}

C19_DoubleFailureIsFatal ==
    variant = "monitor" =>
        /\ (pc \in {"csv", "complete"}) => (sent # <<>> \/ "html" \in DOMAIN files)
        /\ (pc = "aborted") =>
              /\ sent = <<>> /\ "html" \notin DOMAIN files
              /\ "csv" \notin DOMAIN files

\* the SMTP session raised, then the write raised: run has ended with the
\* error
C19_Witness ==
    /\ variant = "monitor" /\ pc = "aborted"
    /\ last.outcome = "raise"
    /\ saves = << report >>
    /\ report.total > 0

\* the columns of the tabular export
ExportColumns ==
    {"date_found", "type", "name", "address", "city", "county", "industry",
     "phone", "website", "details", "priority"}

(***************************************************************************)
(* C20.  Every run that ends with leads has written a table with one row   *)
(* per lead of its final set, in order, with exactly the columns           *)
(* date_found, type, name, address, city, county, industry, phone,         *)
(* website, details, priority, the name of a row being the title or name   *)
(* of its lead; this holds in the historical, the production and the       *)
(* monitor variant.                                                        *)
(***************************************************************************)
C20_ExportOneRowPerLead ==
    (pc = "complete" /\ variant \in {"historical", "production", "monitor"}) =>
        /\ FinalResult # <<>> => "csv" \in DOMAIN files
        /\ "csv" \in DOMAIN files =>
              /\ Len(files["csv"].rows) = Len(FinalResult)
              /\ Range(files["csv"].columns) = ExportColumns
              /\ \A i \in 1..Len(FinalResult) :
                    /\ DOMAIN files["csv"].rows[i] = ExportColumns
                    /\ files["csv"].rows[i]["name"] = BusinessKey(heap[FinalResult[i]])[2]

\* the records of the OSHA collector of the run's script, and the others
OshaRecords ==
    IF variant = "monitor" THEN Range(osha)
    ELSE { id \in 1..Len(heap) : Get(heap[id], "source", "") = "OSHA" }

OtherRecords ==
    IF variant = "monitor" THEN Range(permits)
    ELSE { id \in 1..Len(heap) : Get(heap[id], "source", "") # "OSHA" }

(***************************************************************************)
(* C21.  Every OSHA record has priority High from the moment its collector *)
(* creates it, through the filters and in the row the export writes for    *)
(* it; no record, and no exported row, of another source has priority      *)
(* High.                                                                   *)
(***************************************************************************)
C21_OshaIsHighPriority ==
    variant \in {"historical", "production", "monitor"} =>
        /\ \A id \in OshaRecords : Get(heap[id], "priority", "") = "High"
        /\ \A id \in OtherRecords : Get(heap[id], "priority", "") # "High"
        /\ (pc = "complete" /\ "csv" \in DOMAIN files) =>
              \A i \in 1..Len(files["csv"].rows) :
                  (FinalResult[i] \in OshaRecords)
                      <=> Get(files["csv"].rows[i], "priority", "") = "High"

\* the text of an upstream element, "" standing for an element the item lacks
Upstream(item, tag) == IF tag \in DOMAIN item THEN item[tag] ELSE ""

\* the lead has the guaranteed fields, its title or name under `name_key`
HasGuaranteedFields(lead, name_key) ==
    {"source", name_key, "description", "date_found"} \subseteq DOMAIN lead

(***************************************************************************)
(* C22.  Every record a collector creates has its source, its title or     *)
(* name, its description and its date found; a news lead made from a feed  *)
(* item has the item's title and description, "" for the one the item      *)
(* lacks, an OSHA record the company and the text of its page element; and *)
(* no run ends with an exception of a collector.                           *)
(***************************************************************************)
C22_GuaranteedFields ==
    variant \in {"historical", "production"} =>
        /\ pc # "crashed"
        /\ \A id \in 1..Len(heap) :
              LET lead == heap[id]
              IN  IF Get(lead, "source", "") = "OSHA"
                  THEN /\ HasGuaranteedFields(lead, "company")
                       /\ \E div \in OshaDivs :
                             /\ lead["company"] = Upstream(div, "strong")
                             /\ lead["description"] = Upstream(div, "text")
                  ELSE /\ HasGuaranteedFields(lead, "title")
                       /\ \E item \in Articles :
                             /\ lead["title"] = Upstream(item, "title")
                             /\ lead["description"] = Upstream(item, "description")

\* a filter of the run's script is the next step
AtFilter == pc \in {"filter_industries", "filter_counties"}

(***************************************************************************)
(* C23.  A filter leaves the leads of its input as they were: across the   *)
(* step of a filter no lead dict gains, loses or changes a field.          *)
(***************************************************************************)
C23_FiltersLeaveInputUnchanged ==
    [][AtFilter => \A id \in 1..Len(heap) : heap'[id] = heap[id]]_vars

\* the cities of the table as << county, city >>, counties in the order of
\* the table and the cities of a county in the order of its list
CityEnumeration ==
    [i \in 1..Len(cities[1].city_list) |->
        << cities[1].county, cities[1].city_list[i] >>]
    \o [i \in 1..Len(cities[2].city_list) |->
        << cities[2].county, cities[2].city_list[i] >>]
    \o [i \in 1..Len(cities[3].city_list) |->
        << cities[3].county, cities[3].city_list[i] >>]

\* the places of the enumeration whose city occurs in the text
CitiesIn(text) ==
    { i \in 1..Len(CityEnumeration) : Contains(text, CityEnumeration[i][2]) }

\* the first of them
FirstCityIn(text) ==
    CHOOSE i \in CitiesIn(text) : \A j \in CitiesIn(text) : i <= j

(***************************************************************************)
(* C24.  A lead whose text names configured cities leaves                  *)
(* filter_by_target_counties stamped with the first of them in the order   *)
(* of the enumeration (the cities of Middlesex, then Norfolk, then         *)
(* Worcester, each in list order) and with the county of that city: no     *)
(* city that matches later, of the same or of a later county, replaces it. *)
(***************************************************************************)
C24_FirstCityWins ==
    (variant = "historical" /\ pc = "done") =>
        \A id \in Range(filtered_leads) :
            LET lead == heap[id]
                text == Lower(geo_raw_text(lead))
            IN  CitiesIn(text) # {} =>
                    /\ Get(lead, "city", "") = Title(CityEnumeration[FirstCityIn(text)][2])
                    /\ Get(lead, "county", "") = CityEnumeration[FirstCityIn(text)][1]

\* sub is s with some of its elements left out
RECURSIVE IsSubList(_, _)
IsSubList(sub, s) ==
    IF sub = <<>> THEN TRUE
    ELSE IF s = <<>> THEN FALSE
    ELSE IF Head(sub) = Head(s) THEN IsSubList(Tail(sub), Tail(s))
    ELSE IsSubList(sub, Tail(s))

\* how often the list holds the reference
Occurrences(refs, id) == Cardinality({ i \in 1..Len(refs) : refs[i] = id })

(***************************************************************************)
(* C25.  filter_by_target_counties places no lead of its input in its      *)
(* output more than once, whichever of its branches the lead matched, and  *)
(* its output is its input with some leads left out, in the same order.    *)
(***************************************************************************)
C25_NoLeadPlacedTwice ==
    (variant = "historical" /\ pc = "done") =>
        /\ \A id \in Range(filtered_leads) : Occurrences(final_leads, id) <= 1
        /\ IsSubList(final_leads, filtered_leads)

\* a lead that matched by county name and by city ("Worcester") and a lead
\* naming cities of two counties are both in the output, once each
C25_Witness ==
    /\ variant = "historical" /\ pc = "done"
    /\ \E a, b \in Range(final_leads) :
          /\ heap[a]["title"] = "Worcester School Renovation"
          /\ heap[b]["title"] = "Hotel Bar Reopens"
          /\ Occurrences(final_leads, a) = 1
          /\ Occurrences(final_leads, b) = 1

(***************************************************************************)
(* filter_by_target_counties called on its own, with a list of leads as    *)
(* the collector and the industry filter leave them.                       *)
(***************************************************************************)
\* the feed items the leads of such a list are made from: one that names a
\* county, one that names a city, one that names cities of two counties
GeoItems ==
    { item \in Articles :
         item.title \in { "Middlesex Country Club Gala",
                          "New Restaurant Opens in Cambridge",
                          "Hotel Bar Reopens" } }

\* the leads search_google_news_by_month makes of the items, stamped by
\* filter_by_target_industries
GeoLeads(items) ==
    H_filter_by_target_industries(
        [i \in 1..Len(items) |-> H_news_lead(items[i], ModelQueries[1], 2025, 1)],
        NewRefs(<<>>, Len(items))).heap

InitFilter ==
    /\ variant = "call"
    /\ pc = "call"
    /\ idx = 1
    /\ heap \in { GeoLeads(items) : items \in SeqsUpTo(GeoItems, MaxFilterLeads) }
    /\ filtered_leads = NewRefs(<<>>, Len(heap))
    /\ all_leads = filtered_leads
    /\ news = filtered_leads
    /\ permits = <<>>
    /\ osha = <<>>
    /\ final_leads = <<>>
    /\ last = NoCall
    /\ calls = 0
    /\ report = NoReport
    /\ files = NoFiles
    /\ sent = <<>>
    /\ saves = <<>>

\* HistoricalDataCollector().filter_by_target_counties(leads)
Call_filter_by_target_counties ==
    /\ variant = "call" /\ pc = "call"
    /\ LET r == filter_by_target_counties(heap, filtered_leads)
       IN  /\ heap' = r.heap
           /\ final_leads' = r.out
    /\ pc' = "filter_by_target_counties"
    /\ UNCHANGED << variant, idx, news, permits, osha, all_leads,
                    filtered_leads, last, calls, outputs >>

NextFilter == Call_filter_by_target_counties

SpecFilter == InitFilter /\ [][NextFilter]_vars

\* filter_by_target_counties has returned: its input is filtered_leads, its
\* output final_leads
GeoFiltered ==
    \/ variant = "historical" /\ pc = "done"
    \/ variant = "call" /\ pc = "filter_by_target_counties"

\* the text names a configured county
NamesCounty(text) == \E c \in Range(TARGET_COUNTIES_lower) : Contains(text, c)

(***************************************************************************)
(* C26.  Of two distinct leads of the input of filter_by_target_counties   *)
(* whose fields are all equal, both are in the output when their text      *)
(* names a configured county, and only the first is when their text names  *)
(* no county and one configured city.                                      *)
(***************************************************************************)
C26_DuplicatesTreatedUnequally ==
    GeoFiltered =>
        \A i, j \in 1..Len(filtered_leads) :
            LET a == filtered_leads[i]
                b == filtered_leads[j]
                text == Lower(geo_raw_text(heap[a]))
            IN  (i < j /\ heap[a] = heap[b]
                       /\ \A k \in 1..(i - 1) : heap[filtered_leads[k]] # heap[a]) =>
                    /\ NamesCounty(text) =>
                          a \in Range(final_leads) /\ b \in Range(final_leads)
                    /\ (~NamesCounty(text) /\ Cardinality(CitiesIn(text)) = 1) =>
                          a \in Range(final_leads) /\ b \notin Range(final_leads)

\* a list of two equal leads naming Middlesex and two equal leads naming
\* Cambridge: the output has both of the first pair and one of the second
C26_Witness ==
    /\ variant = "call" /\ pc = "filter_by_target_counties"
    /\ Len(filtered_leads) = 4 /\ Len(final_leads) = 3
    /\ \E a, b, c, d \in Range(filtered_leads) :
          /\ a # b /\ heap[a] = heap[b]
          /\ heap[a]["title"] = "Middlesex Country Club Gala"
          /\ {a, b} \subseteq Range(final_leads)
          /\ c < d /\ heap[c] = heap[d]
          /\ heap[c]["title"] = "New Restaurant Opens in Cambridge"
          /\ c \in Range(final_leads) /\ d \notin Range(final_leads)

(***************************************************************************)
(* filter_by_target_industries of the historical collector called on the   *)
(* leads search_google_news_by_month makes for any of the eleven queries.  *)
(***************************************************************************)
\* feed items: one with neither title nor description, one whose title
\* holds keywords of its own
IndustryItems ==
    { [link |-> "https://news.example/a6"],
      [title |-> "Hotel Bar Reopens", description |-> "Quincy and Cambridge venues",
       link |-> "https://news.example/a2", pubDate |-> "Mon, 03 Mar 2025"] }

\* the leads collect_news_historical can return for them
IndustryLeads ==
    { H_news_lead(item, queries[q], 2025, 1) :
          item \in IndustryItems, q \in 1..Len(queries) }

InitIndustry ==
    /\ variant = "call"
    /\ pc = "call"
    /\ idx = 1
    /\ heap \in SeqsUpTo(IndustryLeads, MaxIndustryLeads)
    /\ news = NewRefs(<<>>, Len(heap))
    /\ all_leads = news
    /\ permits = <<>>
    /\ osha = <<>>
    /\ filtered_leads = <<>>
    /\ final_leads = <<>>
    /\ last = NoCall
    /\ calls = 0
    /\ report = NoReport
    /\ files = NoFiles
    /\ sent = <<>>
    /\ saves = <<>>

\* HistoricalDataCollector().filter_by_target_industries(leads)
Call_filter_by_target_industries ==
    /\ variant = "call" /\ pc = "call"
    /\ LET r == H_filter_by_target_industries(heap, all_leads)
       IN  /\ heap' = r.heap
           /\ filtered_leads' = r.out
    /\ pc' = "filter_by_target_industries"
    /\ UNCHANGED << variant, idx, news, permits, osha, all_leads,
                    final_leads, last, calls, outputs >>

NextIndustry == Call_filter_by_target_industries

SpecIndustry == InitIndustry /\ [][NextIndustry]_vars

\* the historical industry filter has returned: its input is all_leads, the
\* news leads of it are news, its output is filtered_leads
HistoricalIndustryFiltered ==
    \/ variant = "historical" /\ pc \in {"filter_counties", "done", "complete"}
    \/ variant = "call" /\ pc = "filter_by_target_industries"

\* each of the eleven queries holds a target industry keyword
QueriesCarryKeyword ==
    \A q \in 1..Len(queries) :
        \E k \in 1..Len(TARGET_INDUSTRIES) :
            Contains(Lower(queries[q]), TARGET_INDUSTRIES_lower[k])

(***************************************************************************)
(* C27.  The historical industry filter rejects no news lead: each of the  *)
(* eleven queries holds a target keyword, every lead of                    *)
(* collect_news_historical, whatever its title and description, is in the  *)
(* output, in its place, and its matched_keyword is the first keyword of   *)
(* TARGET_INDUSTRIES that occurs in its title, its description or its      *)
(* query.                                                                  *)
(***************************************************************************)
C27_NoNewsLeadRejected ==
    /\ QueriesCarryKeyword
    /\ HistoricalIndustryFiltered =>
          /\ IsSubList(news, filtered_leads)
          /\ \A id \in Range(news) :
                LET lead == heap[id]
                    text == Lower(H_raw_text(lead))
                IN  /\ lead["search_query"] \in Range(queries)
                    /\ \E k \in 1..Len(TARGET_INDUSTRIES) :
                          /\ Get(lead, "matched_keyword", "") = TARGET_INDUSTRIES[k]
                          /\ Contains(text, TARGET_INDUSTRIES_lower[k])
                          /\ \A j \in 1..(k - 1) :
                                ~Contains(text, TARGET_INDUSTRIES_lower[j])

\* a lead with no title and no description was kept for the keyword of its
\* query, and a lead of the query "new hotel Massachusetts" was stamped
\* with the "bar" of its title
C27_Witness ==
    /\ variant = "call" /\ pc = "filter_by_target_industries"
    /\ \E a, b \in Range(filtered_leads) :
          /\ heap[a]["title"] = "" /\ heap[a]["description"] = ""
          /\ heap[a]["search_query"] = "new gym Massachusetts"
          /\ heap[a]["matched_keyword"] = "gym"
          /\ heap[b]["search_query"] = "new hotel Massachusetts"
          /\ heap[b]["matched_keyword"] = "bar"

\* the record is the note search_osha_historical appends
IsOshaNote(lead) ==
    /\ Get(lead, "source", "") = "OSHA"
    /\ DOMAIN lead = {"source", "note", "recommendation"}

\* the keys of the rows of a table of the summary report
RowKeys(rows) == { rows[i].key : i \in 1..Len(rows) }

(***************************************************************************)
(* C28.  The note search_osha_historical appends when the OSHA page        *)
(* answers never reaches the final leads of HistoricalDataCollector.run:   *)
(* the industry filter drops it; every final and every saved lead has its  *)
(* search month and its matched keyword, and the report of the run has no  *)
(* 'Unknown' month row and no 'Other' keyword row.                         *)
(***************************************************************************)
C28_OshaNoteNeverSaved ==
    variant = "historical" =>
        /\ pc = "filter_industries" =>
              (last.outcome = "ok" <=> \E id \in Range(all_leads) : IsOshaNote(heap[id]))
        /\ pc \in {"filter_counties", "done", "complete"} =>
              \A id \in Range(filtered_leads) \cup Range(final_leads) :
                  ~IsOshaNote(heap[id])
        /\ pc \in {"done", "complete"} =>
              \A id \in Range(final_leads) :
                  {"search_month", "matched_keyword"} \subseteq DOMAIN heap[id]
        /\ (pc = "complete" /\ "json" \in DOMAIN files) =>
              /\ \A i \in 1..Len(files["json"]) :
                    {"search_month", "matched_keyword"} \subseteq DOMAIN files["json"][i]
              /\ "Unknown" \notin RowKeys(report.month_rows)
              /\ "Other" \notin RowKeys(report.industry_rows)

\* a run whose OSHA fetch gave the note has saved a lead and its report
C28_Witness ==
    /\ variant = "historical" /\ pc = "complete"
    /\ \E id \in Range(all_leads) : IsOshaNote(heap[id])
    /\ final_leads # <<>>
    /\ "json" \in DOMAIN files
    /\ report.total = Len(final_leads)

=============================================================================
